---- MODULE Spec2Model ----
(***************************************************************************)
(* Model of models/backbone_n.py: the backbone wrappers around the         *)
(* torchvision classification networks, the truncation utility and the     *)
(* feature-dimension probe.                                                *)
(*                                                                         *)
(* Modules live in a heap (a sequence of objects, the index is the         *)
(* object's identity).  A tensor is its shape plus a symbolic value.       *)
(***************************************************************************)
EXTENDS Integers, Sequences, FiniteSets, TLC

VARIABLES heap, insts, held, lastResult, memo, ctorCalls, trimCalls, fwdCount

vars == <<heap, insts, held, lastResult, memo, ctorCalls, trimCalls, fwdCount>>

(***************************************************************************)
(* Bounds.                                                                 *)
(***************************************************************************)
MaxInst == 2
MaxFwd == 3
MaxTrim == 2
MaxIndex == 1

Range(s) == {s[j] : j \in 1..Len(s)}
Max(a, b) == IF a >= b THEN a ELSE b
Min(a, b) == IF a <= b THEN a ELSE b

(***************************************************************************)
(* The registries: ordered (name, constructor) pairs, as the dict literals *)
(* list them.                                                              *)
(***************************************************************************)
RESNET_VERSION_TO_MODEL ==
    << <<"resnet18", "resnet18">>, <<"resnet34", "resnet34">>,
       <<"resnet50", "resnet50">>, <<"resnet101", "resnet101">>,
       <<"resnet152", "resnet152">>, <<"resnext50_32x4d", "resnext50_32x4d">> >>

RESNEXT_VERSION_TO_MODEL ==
    << <<"resnext50_32x4d", "resnext50_32x4d">>,
       <<"resnext101_32x8d", "resnext101_32x8d">> >>

WIDE_RESNET_VERSION_TO_MODEL ==
    << <<"wide_resnet50_2", "wide_resnet50_2">>,
       <<"wide_resnet101_2", "wide_resnet101_2">> >>

DENSENET_VERSION_TO_MODEL ==
    << <<"densenet161", "densenet161">> >>

\* list(REGISTRY.keys())
Keys(reg) == [j \in 1..Len(reg) |-> reg[j][1]]

\* version in REGISTRY
InRegistry(reg, version) == \E j \in 1..Len(reg) : reg[j][1] = version

\* REGISTRY[version]
Lookup(reg, version) == reg[CHOOSE j \in 1..Len(reg) : reg[j][1] = version][2]

Families == {"resnet", "resnext", "wide_resnet", "densenet", "mobilenet"}

RegistryOf(family) ==
    CASE family = "resnet" -> RESNET_VERSION_TO_MODEL
      [] family = "resnext" -> RESNEXT_VERSION_TO_MODEL
      [] family = "wide_resnet" -> WIDE_RESNET_VERSION_TO_MODEL
      [] family = "densenet" -> DENSENET_VERSION_TO_MODEL

\* The strings a caller passes as version: every registry key, the mobile
\* literal, and names no family knows.
Versions ==
    Range(Keys(RESNET_VERSION_TO_MODEL)) \cup Range(Keys(RESNEXT_VERSION_TO_MODEL))
    \cup Range(Keys(WIDE_RESNET_VERSION_TO_MODEL))
    \cup Range(Keys(DENSENET_VERSION_TO_MODEL))
    \cup {"mobilenet_v2", "resnet9", "mobilenet_v3", ""}

(***************************************************************************)
(* Heap objects.                                                           *)
(***************************************************************************)
\* A leaf sublayer: ops are the (kernel, stride, padding) triples of its
\* strided convolutions / poolings, adaptive marks AdaptiveAvgPool2d((1,1)),
\* out its output channels (0: unchanged), bn whether it holds BatchNorm
\* buffers, nbt the num_batches_tracked buffer.
Layer(kind, name, ops, adaptive, out, bn) ==
    [kind |-> kind, name |-> name, children |-> <<>>, ops |-> ops,
     adaptive |-> adaptive, out |-> out, bn |-> bn, training |-> TRUE, nbt |-> 0]

\* A module whose children() are the given heap objects.
Container(kind, children) ==
    [kind |-> kind, name |-> kind, children |-> children, ops |-> <<>>,
     adaptive |-> FALSE, out |-> 0, bn |-> FALSE, training |-> TRUE, nbt |-> 0]

\* torchvision ResNet: the ten top-level children; e is the block expansion.
ResNetChildren(e) ==
    << Layer("Conv2d", "conv1", << <<7, 2, 3>> >>, FALSE, 64, FALSE),
       Layer("BatchNorm2d", "bn1", <<>>, FALSE, 0, TRUE),
       Layer("ReLU", "relu", <<>>, FALSE, 0, FALSE),
       Layer("MaxPool2d", "maxpool", << <<3, 2, 1>> >>, FALSE, 0, FALSE),
       Layer("Stage", "layer1", <<>>, FALSE, 64 * e, TRUE),
       Layer("Stage", "layer2", << <<3, 2, 1>> >>, FALSE, 128 * e, TRUE),
       Layer("Stage", "layer3", << <<3, 2, 1>> >>, FALSE, 256 * e, TRUE),
       Layer("Stage", "layer4", << <<3, 2, 1>> >>, FALSE, 512 * e, TRUE),
       Layer("AdaptiveAvgPool2d", "avgpool", <<>>, TRUE, 0, FALSE),
       Layer("Linear", "fc", <<>>, FALSE, 1000, FALSE) >>

\* torchvision DenseNet: children() are features and classifier; the relu and
\* the adaptive average pooling live in DenseNet.forward, not in a child.
DenseNetChildren(numFeatures) ==
    << Layer("Stage", "features",
             << <<7, 2, 3>>, <<3, 2, 1>>, <<2, 2, 0>>, <<2, 2, 0>>, <<2, 2, 0>> >>,
             FALSE, numFeatures, TRUE),
       Layer("Linear", "classifier", <<>>, FALSE, 1000, FALSE) >>

\* torchvision MobileNetV2: children() are features and classifier.
MobileNetV2Children ==
    << Layer("Stage", "features",
             << <<3, 2, 1>>, <<3, 2, 1>>, <<3, 2, 1>>, <<3, 2, 1>>, <<3, 2, 1>> >>,
             FALSE, 1280, TRUE),
       Layer("Linear", "classifier", <<>>, FALSE, 1000, FALSE) >>

\* The children a torchvision constructor builds.
CtorChildren(ctor) ==
    CASE ctor \in {"resnet18", "resnet34"} -> ResNetChildren(1)
      [] ctor \in {"resnet50", "resnet101", "resnet152", "resnext50_32x4d",
                   "resnext101_32x8d", "wide_resnet50_2", "wide_resnet101_2"}
           -> ResNetChildren(4)
      [] ctor = "densenet161" -> DenseNetChildren(2208)
      [] ctor = "mobilenet_v2" -> MobileNetV2Children

\* Calling a constructor: allocates the sublayers, then the network object.
\* Returns the new heap and the network's identity.
NewNetwork(h, ctor) ==
    LET ch == CtorChildren(ctor)
        n == Len(ch)
        base == Len(h)
    IN [heap |-> h \o ch \o <<Container(ctor, [j \in 1..n |-> base + j])>>,
        id |-> base + n + 1]

(***************************************************************************)
(* trim_network_at_index                                                   *)
(***************************************************************************)
\* Variant: lst[index:], the slice on the wrong side of the colon.
SliceTo_keepLast(lst, index) ==
    IF index < 0 THEN SubSeq(lst, Max(1, Len(lst) + index + 1), Len(lst))
    ELSE SubSeq(lst, index + 1, Len(lst))

\* Python's lst[:index]
SliceTo(lst, index) ==
    IF index < 0 THEN SubSeq(lst, 1, Max(0, Len(lst) + index))
    ELSE SubSeq(lst, 1, Min(index, Len(lst)))

\* Variant: the kept sublayers are deep-copied into the new container.
trim_network_at_index_deepcopy(h, network, index) ==
    IF ~(index < 0)
    THEN [status |-> "AssertionError", heap |-> h, id |-> 0,
          msg |-> <<"Param index must be negative. Received ", ToString(index), ".">>]
    ELSE LET kept == SliceTo(h[network].children, index)
             n == Len(kept)
         IN [status |-> "ok",
             heap |-> h \o [j \in 1..n |-> h[kept[j]]]
                        \o <<Container("Sequential", [j \in 1..n |-> Len(h) + j])>>,
             id |-> Len(h) + n + 1, msg |-> <<>>]

\* assert index < 0; return nn.Sequential(*list(network.children())[:index])
trim_network_at_index(h, network, index) ==
    IF ~(index < 0)
    THEN [status |-> "AssertionError", heap |-> h, id |-> 0,
          msg |-> <<"Param index must be negative. Received ", ToString(index), ".">>]
    ELSE [status |-> "ok",
          heap |-> h \o <<Container("Sequential", SliceTo(h[network].children, index))>>,
          id |-> Len(h) + 1, msg |-> <<>>]

(***************************************************************************)
(* Construction of the wrappers.                                           *)
(***************************************************************************)
\* Variant: the message names the allowed set but not the received value.
ValueErrorMsg_noValue(reg, version) ==
    <<"Parameter version must be one of ">> \o Keys(reg) \o <<".">>

ValueErrorMsg(reg, version) ==
    <<"Parameter version must be one of ">> \o Keys(reg) \o <<". Received ", version, ".">>

NotImplementedMsg(version) ==
    <<"Only mobilenet_v2 has been implemented. Received ", version, ".">>

\* The sublayers of a module and the state they carry.
Snapshot(h, id) == [j \in 1..Len(h[id].children) |->
                       [id |-> h[id].children[j], obj |-> h[h[id].children[j]]]]

\* State pieces a construction reads and writes.
CtorState(h, is, cc, tc) == [heap |-> h, insts |-> is, ctorCalls |-> cc, trimCalls |-> tc]

\* self.backbone = trim_network_at_index(ctor(), -1)
BuildBackbone(s, family, version, ctor) ==
    LET net == NewNetwork(s.heap, ctor)
        t == trim_network_at_index(net.heap, net.id, -1)
    IN [heap |-> t.heap,
        insts |-> Append(s.insts, [family |-> family, version |-> version,
                                   backbone |-> t.id, snap |-> Snapshot(t.heap, t.id)]),
        ctorCalls |-> s.ctorCalls + 1,
        trimCalls |-> s.trimCalls + 1,
        result |-> [op |-> "construct", family |-> family, arg |-> version,
                    status |-> "ok", msg |-> <<>>, inst |-> Len(s.insts) + 1]]

Rejected(s, family, version, status, msg) ==
    [heap |-> s.heap, insts |-> s.insts, ctorCalls |-> s.ctorCalls,
     trimCalls |-> s.trimCalls,
     result |-> [op |-> "construct", family |-> family, arg |-> version,
                 status |-> status, msg |-> msg, inst |-> 0]]

\* __init__ of ResNetBackbone, ResNeXtBackbone, WideResNetBackbone and
\* DenseNetBackbone: the same body over the family's registry.
RegistryBackbone_init(s, family, version) ==
    LET reg == RegistryOf(family)
    IN IF ~InRegistry(reg, version)
       THEN Rejected(s, family, version, "ValueError", ValueErrorMsg(reg, version))
       ELSE BuildBackbone(s, family, version, Lookup(reg, version))

\* Variant: the mobile wrapper reports the generic invalid-argument error.
MobileNetBackbone_init_valueError(s, version) ==
    IF version # "mobilenet_v2"
    THEN Rejected(s, "mobilenet", version, "ValueError", NotImplementedMsg(version))
    ELSE BuildBackbone(s, "mobilenet", version, "mobilenet_v2")

\* Variant: the network is instantiated before the version is checked.
MobileNetBackbone_init_buildFirst(s, version) ==
    LET net == NewNetwork(s.heap, "mobilenet_v2")
    IN IF version # "mobilenet_v2"
       THEN Rejected([s EXCEPT !.heap = net.heap, !.ctorCalls = @ + 1],
                     "mobilenet", version, "NotImplementedError", NotImplementedMsg(version))
       ELSE BuildBackbone(s, "mobilenet", version, "mobilenet_v2")

MobileNetBackbone_init(s, version) ==
    IF version # "mobilenet_v2"
    THEN Rejected(s, "mobilenet", version, "NotImplementedError", NotImplementedMsg(version))
    ELSE BuildBackbone(s, "mobilenet", version, "mobilenet_v2")

Backbone_init(s, family, version) ==
    IF family = "mobilenet" THEN MobileNetBackbone_init(s, version)
    ELSE RegistryBackbone_init(s, family, version)

NoResult == [op |-> "none", status |-> "none"]
NoMemo == [inst |-> 0]

Init ==
    /\ heap = <<>>
    /\ insts = <<>>
    /\ held = {}
    /\ lastResult = NoResult
    /\ memo = NoMemo
    /\ ctorCalls = 0
    /\ trimCalls = 0
    /\ fwdCount = <<>>

Construct(family, version) ==
    LET r == Backbone_init(CtorState(heap, insts, ctorCalls, trimCalls), family, version)
    IN /\ Len(insts) < MaxInst
       /\ heap' = r.heap
       /\ insts' = r.insts
       /\ ctorCalls' = r.ctorCalls
       /\ trimCalls' = r.trimCalls
       /\ lastResult' = r.result
       /\ fwdCount' = [j \in 1..Len(r.insts) |-> IF j <= Len(insts) THEN fwdCount[j] ELSE 0]
       /\ UNCHANGED <<held, memo>>

ResNetBackbone_new == \E v \in Versions : Construct("resnet", v)
ResNeXtBackbone_new == \E v \in Versions : Construct("resnext", v)
WideResNetBackbone_new == \E v \in Versions : Construct("wide_resnet", v)
DenseNetBackbone_new == \E v \in Versions : Construct("densenet", v)
MobileNetBackbone_new == \E v \in Versions : Construct("mobilenet", v)

NextCtor ==
    \/ ResNetBackbone_new
    \/ ResNeXtBackbone_new
    \/ WideResNetBackbone_new
    \/ DenseNetBackbone_new
    \/ MobileNetBackbone_new

SpecCtor == Init /\ [][NextCtor]_vars

(***************************************************************************)
(* Tensors and the forward computation.                                    *)
(***************************************************************************)
Batches == {1, 2}
HW == {<<64, 64>>, <<224, 224>>, <<64, 224>>}

Tensor(shape, data) == [shape |-> shape, data |-> data]

\* torch.ones(*shape)
Ones(shape) == Tensor(shape, "ones")

\* The input batches a caller forwards.
Inputs == {Tensor(<<b, 3, hw[1], hw[2]>>, d) :
              b \in Batches, hw \in HW, d \in {"ones", "x"}}

\* Output size of a convolution / pooling window along one axis.
ConvOut(n, k, s, p) == ((n + 2 * p - k) \div s) + 1

RECURSIVE ApplyOps(_, _)
ApplyOps(n, ops) ==
    IF ops = <<>> THEN n
    ELSE ApplyOps(ConvOut(n, ops[1][1], ops[1][2], ops[1][3]), Tail(ops))

\* Shape a sublayer produces from a [b, c, h, w] input (Linear: last axis).
LayerShape(l, sh) ==
    IF l.kind = "Linear" THEN [sh EXCEPT ![Len(sh)] = l.out]
    ELSE <<sh[1],
           IF l.out = 0 THEN sh[2] ELSE l.out,
           IF l.adaptive THEN 1 ELSE ApplyOps(sh[3], l.ops),
           IF l.adaptive THEN 1 ELSE ApplyOps(sh[4], l.ops)>>

\* nn.Sequential.__call__: the children applied in order.
RECURSIVE SequentialShape(_, _, _)
SequentialShape(h, children, sh) ==
    IF children = <<>> THEN sh
    ELSE SequentialShape(h, Tail(children), LayerShape(h[children[1]], sh))

\* Variant: normalisation with the running statistics in every mode.
StatsRead_running(h, children) ==
    [j \in 1..Len(children) |->
        IF h[children[j]].bn THEN h[children[j]].nbt ELSE 0]

\* Batch-norm statistics the value is normalised with: the batch's own in
\* training mode (nothing read from the buffers), the running ones otherwise.
StatsRead(h, children) ==
    [j \in 1..Len(children) |->
        IF h[children[j]].bn /\ ~h[children[j]].training THEN h[children[j]].nbt ELSE 0]

\* The value a Sequential computes: determined by the weights of its
\* sublayers (their identity), the statistics read and the input.
SequentialValue(h, children, x) ==
    [w |-> children, stats |-> StatsRead(h, children), x |-> x]

\* Side effect of a pass in training mode: every BatchNorm buffer met moves.
TouchBuffers(h, children) ==
    [j \in 1..Len(h) |->
        IF j \in Range(children) /\ h[j].bn /\ h[j].training
        THEN [h[j] EXCEPT !.nbt = @ + 1] ELSE h[j]]

\* self.backbone(input_tensor)
RunBackbone(h, bb, x) ==
    [heap |-> TouchBuffers(h, h[bb].children),
     out |-> Tensor(SequentialShape(h, h[bb].children, x.shape),
                    SequentialValue(h, h[bb].children, x))]

\* torch.flatten(t, start_dim=1)
Flatten(t) ==
    Tensor(<<t.shape[1], t.shape[2] * t.shape[3] * t.shape[4]>>, <<"flatten", t.data>>)

\* t.mean([2, 3])
Mean23(t) == Tensor(<<t.shape[1], t.shape[2]>>, <<"mean", t.data>>)

\* forward of ResNetBackbone, ResNeXtBackbone, WideResNetBackbone, DenseNetBackbone
FlattenBackbone_forward(h, inst, x) ==
    LET r == RunBackbone(h, inst.backbone, x)
    IN [heap |-> r.heap, out |-> Flatten(r.out)]

MobileNetBackbone_forward(h, inst, x) ==
    LET r == RunBackbone(h, inst.backbone, x)
    IN [heap |-> r.heap, out |-> Mean23(r.out)]

\* backbone.forward(x), dispatched on the wrapper's class
Backbone_forward(h, inst, x) ==
    IF inst.family = "mobilenet" THEN MobileNetBackbone_forward(h, inst, x)
    ELSE FlattenBackbone_forward(h, inst, x)

\* Variant: output_feat.shape[0] instead of output_feat.shape[-1].
calculate_backbone_feature_dim_firstAxis(h, inst, input_shape) ==
    LET tensor == Ones(<<1>> \o input_shape)
        r == Backbone_forward(h, inst, tensor)
    IN [heap |-> r.heap, tensor |-> tensor, output_feat |-> r.out,
        forwards |-> 1, value |-> r.out.shape[1]]

\* calculate_backbone_feature_dim(backbone, input_shape)
calculate_backbone_feature_dim(h, inst, input_shape) ==
    LET tensor == Ones(<<1>> \o input_shape)
        r == Backbone_forward(h, inst, tensor)
    IN [heap |-> r.heap, tensor |-> tensor, output_feat |-> r.out,
        forwards |-> 1, value |-> r.out.shape[Len(r.out.shape)]]

\* The caller may keep an observed (input, output) pair for later comparison.
Remember(obs) == memo' = memo \/ memo' = obs

Forward(i, x) ==
    LET r == Backbone_forward(heap, insts[i], x)
    IN /\ fwdCount[i] < MaxFwd
       /\ heap' = r.heap
       /\ fwdCount' = [fwdCount EXCEPT ![i] = @ + 1]
       /\ lastResult' = [op |-> "forward", inst |-> i, arg |-> x, status |-> "ok",
                         value |-> r.out]
       /\ Remember([inst |-> i, x |-> x, out |-> r.out, via |-> "forward",
                    at |-> fwdCount[i] + 1])
       /\ UNCHANGED <<insts, held, ctorCalls, trimCalls>>

FlattenForward ==
    \E i \in 1..Len(insts) : \E x \in Inputs :
        insts[i].family # "mobilenet" /\ Forward(i, x)

MobileForward ==
    \E i \in 1..Len(insts) : \E x \in Inputs :
        insts[i].family = "mobilenet" /\ Forward(i, x)

Probe ==
    \E i \in 1..Len(insts) : \E hw \in HW :
        LET r == calculate_backbone_feature_dim(heap, insts[i], <<3, hw[1], hw[2]>>)
        IN /\ fwdCount[i] < MaxFwd
           /\ heap' = r.heap
           /\ fwdCount' = [fwdCount EXCEPT ![i] = @ + r.forwards]
           /\ lastResult' = [op |-> "probe", inst |-> i, arg |-> <<3, hw[1], hw[2]>>,
                             status |-> "ok", input |-> r.tensor,
                             output |-> r.output_feat, value |-> r.value]
           /\ Remember([inst |-> i, x |-> r.tensor, out |-> r.output_feat, via |-> "probe",
                        at |-> fwdCount[i] + 1])
           /\ UNCHANGED <<insts, held, ctorCalls, trimCalls>>

(***************************************************************************)
(* Direct calls of trim_network_at_index on modules the caller holds.      *)
(***************************************************************************)
TrimIndices == (-(MaxIndex + 1))..MaxIndex

Holdable == {insts[i].backbone : i \in 1..Len(insts)} \cup held

Trim ==
    \E network \in Holdable : \E index \in TrimIndices :
        LET r == trim_network_at_index(heap, network, index)
        IN /\ trimCalls < Len(insts) + MaxTrim
           /\ heap' = r.heap
           /\ trimCalls' = trimCalls + 1
           /\ held' = IF r.status = "ok" THEN held \cup {r.id} ELSE held
           /\ lastResult' = [op |-> "trim", network |-> network, arg |-> index,
                             status |-> r.status, msg |-> r.msg, value |-> r.id,
                             before |-> heap[network].children]
           /\ UNCHANGED <<insts, memo, ctorCalls, fwdCount>>

(***************************************************************************)
(* Specifications.                                                         *)
(***************************************************************************)
EmptyState == CtorState(<<>>, <<>>, 0, 0)

\* The (family, version) pairs construction accepts.
Accepted == {fv \in Families \X Versions :
                Backbone_init(EmptyState, fv[1], fv[2]).result.status = "ok"}

\* The state after one successful construction: the backbone the forward,
\* probe and truncation calls are made on.
InitBuilt ==
    \E fv \in Accepted :
        LET s == Backbone_init(EmptyState, fv[1], fv[2])
        IN /\ heap = s.heap
           /\ insts = s.insts
           /\ ctorCalls = s.ctorCalls
           /\ trimCalls = s.trimCalls
           /\ lastResult = s.result
           /\ held = {}
           /\ memo = NoMemo
           /\ fwdCount = [j \in 1..Len(s.insts) |-> 0]

NextFwd ==
    \/ FlattenForward
    \/ MobileForward
    \/ Probe

NextTrim == Trim

SpecFwd == InitBuilt /\ [][NextFwd]_vars

SpecTrim == InitBuilt /\ [][NextTrim]_vars

(***************************************************************************)
(* Properties.                                                             *)
(***************************************************************************)
IsConstruct(family) == lastResult.op = "construct" /\ lastResult.family = family

\* A construction that succeeded left a new instance holding a Sequential.
Succeeded ==
    /\ lastResult.status = "ok"
    /\ lastResult.inst = Len(insts)
    /\ insts[lastResult.inst].version = lastResult.arg
    /\ heap[insts[lastResult.inst].backbone].kind = "Sequential"

C2_MobileValidation ==
    IsConstruct("mobilenet") =>
        /\ Succeeded <=> lastResult.arg = "mobilenet_v2"
        /\ ~Succeeded =>
             /\ lastResult.status = "NotImplementedError"
             /\ lastResult.inst = 0
             /\ lastResult.arg \in Range(lastResult.msg)

C2_Witness ==
    /\ IsConstruct("mobilenet")
    /\ lastResult.arg = "resnet50"
    /\ lastResult.status = "NotImplementedError"

\* The channel count of each architecture's last convolutional feature map.
FeatureWidth(version) ==
    CASE version \in {"resnet18", "resnet34"} -> 512
      [] version = "densenet161" -> 2208
      [] version = "mobilenet_v2" -> 1280
      [] OTHER -> 2048

\* C3: forward of any accepted family and version on a [batch, channels,
\* height, width] input returns [batch, feature_width], feature_width being
\* the architecture's channel count whatever the height and width.
C3_ForwardShape ==
    lastResult.op = "forward" =>
        lastResult.value.shape =
            <<lastResult.arg.shape[1], FeatureWidth(insts[lastResult.inst].version)>>

\* C4: trim_network_at_index with index k on a network of N sublayers fails
\* the precondition and returns nothing when k >= 0; when k < 0 it returns a
\* new Sequential holding the input's sublayers but the last |k|, in order
\* (N - 1 of them for k = -1, none when |k| >= N).
C4_Trim ==
    lastResult.op = "trim" =>
        LET k == lastResult.arg
            in == lastResult.before
            N == Len(in)
        IN /\ k >= 0 => lastResult.status = "AssertionError" /\ lastResult.value = 0
           /\ k < 0 =>
                /\ lastResult.status = "ok"
                /\ lastResult.value \in 1..Len(heap)
                /\ lastResult.value \notin Range(in)
                /\ heap[lastResult.value].kind = "Sequential"
                /\ LET out == heap[lastResult.value].children
                   IN /\ Len(out) = IF -k >= N THEN 0 ELSE N - (-k)
                      /\ \A j \in 1..Len(out) : out[j] = in[j]
                      /\ (k = -1 /\ N >= 1) => Len(out) = N - 1

C4_Witness ==
    /\ lastResult.op = "trim"
    /\ lastResult.arg = -2
    /\ Len(lastResult.before) = 9
    /\ Len(heap[lastResult.value].children) = 7

\* C5: a rejected construction has called no network constructor and no
\* trim_network_at_index, and has stored no truncated network.
C5_ValidateFirst ==
    [][(lastResult'.op = "construct" /\ lastResult'.status # "ok") =>
          /\ ctorCalls' = ctorCalls
          /\ trimCalls' = trimCalls
          /\ heap' = heap
          /\ insts' = insts]_vars

C5_Witness ==
    /\ lastResult.op = "construct"
    /\ lastResult.status = "NotImplementedError"
    /\ Len(insts) = 1
    /\ ctorCalls = 1
    /\ trimCalls = 1

\* C6: two forward calls of one instance with the same input return the same
\* output, whatever forward and probe calls happened in between.
C6_Deterministic ==
    memo.inst # 0 =>
        /\ (lastResult.op = "forward" /\ lastResult.inst = memo.inst
              /\ lastResult.arg = memo.x) => lastResult.value = memo.out
        /\ (lastResult.op = "probe" /\ lastResult.inst = memo.inst
              /\ lastResult.input = memo.x) => lastResult.output = memo.out

C6_Witness ==
    /\ memo.inst # 0
    /\ memo.at = 1
    /\ lastResult.op = "forward"
    /\ lastResult.inst = memo.inst
    /\ lastResult.arg = memo.x
    /\ fwdCount[memo.inst] = 3

LastAxis(t) == t.shape[Len(t.shape)]

\* C7: calculate_backbone_feature_dim(backbone, (c, h, w)) makes exactly one
\* forward call on that backbone, with the all-ones input [1, c, h, w], and
\* returns the last-axis size of its output: the size a manual forward call
\* with that input shows.
C7_Probe ==
    [][lastResult'.op = "probe" =>
          LET i == lastResult'.inst
              x == Ones(<<1>> \o lastResult'.arg)
          IN /\ \A j \in 1..Len(insts) :
                    fwdCount'[j] = fwdCount[j] + (IF j = i THEN 1 ELSE 0)
             /\ lastResult'.input = x
             /\ lastResult'.value = LastAxis(lastResult'.output)
             /\ lastResult'.value = LastAxis(Backbone_forward(heap, insts[i], x).out)
             /\ (memo.inst = i /\ memo.via = "forward" /\ memo.x = x) =>
                    lastResult'.value = LastAxis(memo.out)]_vars

C7_Witness ==
    /\ lastResult.op = "probe"
    /\ memo.inst = lastResult.inst
    /\ memo.via = "forward"
    /\ memo.x = lastResult.input
    /\ lastResult.value = 2048

\* C8: ResNetBackbone construction succeeds exactly for resnet18, resnet34,
\* resnet50, resnet101 and resnet152.
C8_ResNetAllowed ==
    IsConstruct("resnet") =>
        (lastResult.status = "ok" <=>
            lastResult.arg \in {"resnet18", "resnet34", "resnet50", "resnet101", "resnet152"})

\* C9: after any forward and probe calls, the truncated network an instance
\* holds (its sublayers and the state they carry) is as construction left it.
C9_Immutable ==
    \A i \in 1..Len(insts) : Snapshot(heap, insts[i].backbone) = insts[i].snap

\* C10: a call of trim_network_at_index, failing or not, leaves every module
\* that existed as it was; on success the one new object is the returned
\* container, and its elements are the input's own sublayer objects.
C10_TrimFrame ==
    [][trimCalls' = trimCalls + 1 =>
          /\ \A id \in 1..Len(heap) : heap'[id] = heap[id]
          /\ lastResult'.status # "ok" => heap' = heap
          /\ lastResult'.status = "ok" =>
                /\ Len(heap') = Len(heap) + 1
                /\ lastResult'.value = Len(heap')
                /\ \A j \in 1..Len(heap'[lastResult'.value].children) :
                      heap'[lastResult'.value].children[j]
                          = heap[lastResult'.network].children[j]]_vars

C10_Witness ==
    /\ lastResult.op = "trim"
    /\ lastResult.status = "ok"
    /\ Len(lastResult.before) = 9
    /\ heap[lastResult.network].children = lastResult.before
    /\ Len(heap[lastResult.value].children) = 8

====
